---------------------------- MODULE Spec2Model ----------------------------
(***************************************************************************)
(* QuickFileBrowser (quick_file_browser.py): the quick-panel browsing      *)
(* sessions, the process-wide saved-paths table, the deep (recursive)      *)
(* scan on a worker thread and the status-bar polling loop.                *)
(*                                                                         *)
(* A name is a sequence of one-character strings, a path a sequence of     *)
(* names from the filesystem root (<<>> is "/").  normalize_path is the    *)
(* identity and join_path is os.path.join (the non-Windows branch of       *)
(* initialize).                                                            *)
(***************************************************************************)
EXTENDS Integers, Sequences, FiniteSets, TLC

(***************************************************************************)
(* Bounds of the model.                                                    *)
(***************************************************************************)
MaxSessions == 2    \* QuickPanelFileBrowser objects created in one run
MaxSaved    == 2    \* length of one window's saved-paths list
MaxTicks    == 15   \* polls of one StatusBarThread

Windows   == {1, 2}       \* window ids
Views     == {1, 2}       \* the views of the window a scan runs in
SavePaths == {"a", "b"}   \* the paths the save-path command is run with

(***************************************************************************)
(* The filesystem the sessions browse.                                     *)
(***************************************************************************)
n_p  == <<"p">>
n_s  == <<"s">>
n_g  == <<"g">>
n_n  == <<"n">>
n_u  == <<"u">>
f_me == <<"m", ".", "e">>
f_h  == <<".", "h">>
f_al == <<"a", ".", "l">>
f_to == <<"t", ".", "o">>
f_ke == <<"k", ".", "e">>
f_je == <<"j", ".", "e">>
f_re == <<"r", ".", "e">>
f_xe == <<"x", ".", "e">>

Dir(children)  == [type |-> "dir", readable |-> TRUE, children |-> children]
LockedDir(children) == [type |-> "dir", readable |-> FALSE, children |-> children]
File           == [type |-> "file", readable |-> TRUE, children |-> <<>>]

\* /p/s/u is a directory whose listing raises PermissionError.
FS ==
    (<<>>                 :> Dir(<<n_p>>))
 @@ (<<n_p>>              :> Dir(<<n_s, f_re, n_g>>))
 @@ (<<n_p, n_s>>         :> Dir(<<f_me, f_h, n_u, f_al, f_to>>))
 @@ (<<n_p, n_s, n_u>>    :> LockedDir(<<f_xe>>))
 @@ (<<n_p, n_g>>         :> Dir(<<f_ke, n_n>>))
 @@ (<<n_p, n_g, n_n>>    :> Dir(<<f_je>>))
 @@ (<<n_p, f_re>>        :> File)
 @@ (<<n_p, n_s, f_me>>   :> File)
 @@ (<<n_p, n_s, f_h>>    :> File)
 @@ (<<n_p, n_s, f_al>>   :> File)
 @@ (<<n_p, n_s, f_to>>   :> File)
 @@ (<<n_p, n_g, f_ke>>   :> File)
 @@ (<<n_p, n_g, n_n, f_je>> :> File)
 @@ (<<n_p, n_s, n_u, f_xe>> :> File)

isfile(path) == path \in DOMAIN FS /\ FS[path].type = "file"
isdir(path)  == path \in DOMAIN FS /\ FS[path].type = "dir"

\* os.listdir(path) raises unless path is a directory that can be read.
listdir_ok(path) == isdir(path) /\ FS[path].readable
listdir(path)    == FS[path].children

\* os.path.dirname(path), and abspath(os.path.join(curdir, '..')): the parent
\* of the root is the root.
dirname(path) == IF path = <<>> THEN <<>> ELSE SubSeq(path, 1, Len(path) - 1)
\* the '..' left out of the join
pardir_of_itself(curdir) == curdir

pardir_of(curdir) == dirname(curdir)
join_path(curdir, entry) == Append(curdir, entry)

\* The '' that list_files passes as curdir: no path of the filesystem.
EmptyStr == << <<>> >>

(***************************************************************************)
(* os.path.splitext(name)[1]: from the last dot, unless only dots precede  *)
(* it (leading dots are no extension).                                     *)
(***************************************************************************)
DotsAt(name) == {i \in 1..Len(name) : name[i] = "."}
LastDot(name) == CHOOSE i \in DotsAt(name) : \A j \in DotsAt(name) : j <= i
splitext(name) ==
    IF DotsAt(name) = {} THEN <<>>
    ELSE IF \A j \in 1..(LastDot(name) - 1) : name[j] = "." THEN <<>>
    ELSE SubSeq(name, LastDot(name), Len(name))

(***************************************************************************)
(* pat2regex: '*' -> '.*', '.' -> '\.', '?' -> '.', the alternatives       *)
(* anchored as ^(?:p1|p2|...)$.  A pattern holding "(" (never closed) does *)
(* not compile, and the matcher falls back to '.*'.                        *)
(***************************************************************************)
RECURSIVE GlobMatch(_, _)
GlobMatch(pat, name) ==
    IF pat = <<>> THEN name = <<>>
    ELSE IF Head(pat) = "*"
         THEN \E k \in 0..Len(name) :
                  GlobMatch(Tail(pat), SubSeq(name, k + 1, Len(name)))
    ELSE IF name = <<>> THEN FALSE
    ELSE IF Head(pat) = "?" THEN GlobMatch(Tail(pat), Tail(name))
    ELSE Head(pat) = Head(name) /\ GlobMatch(Tail(pat), Tail(name))

Compiles(patterns) ==
    \A i \in 1..Len(patterns) : \A j \in 1..Len(patterns[i]) : patterns[i][j] # "("

pat2regex(patterns) ==
    IF Compiles(patterns) THEN [all |-> FALSE, pats |-> patterns]
    ELSE [all |-> TRUE, pats |-> <<>>]

\* regex.match(name)
match(regex, name) ==
    regex.all \/ (\E i \in 1..Len(regex.pats) : GlobMatch(regex.pats[i], name))

(***************************************************************************)
(* The settings initialize() reads, and the class attributes it sets.      *)
(* file_types is the JSON object in the order of its members; a member     *)
(* whose "extensions" is not a list (is_list FALSE) carries the one value   *)
(* as a one-element sequence; a member may lack "icon".                    *)
(***************************************************************************)
e_e == <<".", "e">>
e_o == <<".", "o">>
e_l == <<".", "l">>

\* the keys '.*' and None of file_type_icons
Wildcard == <<".", "*">>
None     == <<"None">>

DefaultSettings ==
    [file_exclude_patterns   |-> <<>>,
     folder_exclude_patterns |-> <<>>,
     show_hidden_files       |-> TRUE,
     ignored_file_types      |-> <<>>,
     file_types              |-> <<>>]

FilterSettings ==
    [file_exclude_patterns   |-> << <<"*", ".", "o">> >>,
     folder_exclude_patterns |-> << <<"g">> >>,
     show_hidden_files       |-> FALSE,
     ignored_file_types      |-> << e_l >>,
     file_types              |->
         << [name |-> "src", icon |-> "S", is_list |-> TRUE,
             extensions |-> <<e_e, e_o>>],
            [name |-> "obj", is_list |-> TRUE, extensions |-> <<e_o>>] >>]

BrokenSettings ==
    [file_exclude_patterns   |-> << <<"?", ".", "l">> >>,
     folder_exclude_patterns |-> << <<"(", "g">> >>,
     show_hidden_files       |-> TRUE,
     ignored_file_types      |-> <<>>,
     file_types              |->
         << [name |-> "any", icon |-> "A", is_list |-> FALSE,
             extensions |-> <<Wildcard>>],
            [name |-> "dir", icon |-> "D", is_list |-> TRUE,
             extensions |-> <<None, e_l>>] >>]

SettingsSet == {DefaultSettings, FilterSettings, BrokenSettings}

FileTypeIcon(name, icon) == [name |-> name, icon |-> icon]

\* file_type_icons[key] = value
put(table, key, value) ==
    [k \in DOMAIN table \cup {key} |-> IF k = key THEN value ELSE table[k]]

\* keeps the category an extension already has
put_all_first_wins(table, keys, value) ==
    LET new == {keys[i] : i \in 1..Len(keys)} \ DOMAIN table
    IN  [k \in DOMAIN table \cup new |-> IF k \in new THEN value ELSE table[k]]

\* for extension in extensions: file_type_icons[extension] = file_type_icon
RECURSIVE put_all(_, _, _)
put_all(table, keys, value) ==
    IF keys = <<>> THEN table
    ELSE put_all(put(table, Head(keys), value), Tail(keys), value)

\* for name, file_type in settings.get('file_types', {}).items()
RECURSIVE configured_types(_, _)
configured_types(table, file_types) ==
    IF file_types = <<>> THEN table
    ELSE LET ft   == Head(file_types)
             icon == IF "icon" \in DOMAIN ft THEN ft.icon ELSE "Open"
         IN  configured_types(
                 put_all(table, ft.extensions, FileTypeIcon(ft.name, icon)),
                 Tail(file_types))

\* the directory fallback left out
with_fallbacks_no_folder(table) ==
    IF Wildcard \in DOMAIN table THEN table
    ELSE put(table, Wildcard, FileTypeIcon("file", "Open"))

\* if '.*' not in file_type_icons: ...; if None not in file_type_icons: ...
with_fallbacks(table) ==
    LET t == IF Wildcard \in DOMAIN table THEN table
             ELSE put(table, Wildcard, FileTypeIcon("file", "Open"))
    IN  IF None \in DOMAIN t THEN t
        ELSE put(t, None, FileTypeIcon("folder", "Open"))

file_type_icons_of(s) == with_fallbacks(configured_types(<< >>, s.file_types))

initialize(s) ==
    [exclude_file       |-> pat2regex(s.file_exclude_patterns),
     exclude_folder     |-> pat2regex(s.folder_exclude_patterns),
     show_hidden_files  |-> s.show_hidden_files,
     ignored_file_types |-> s.ignored_file_types,
     file_type_icons    |-> file_type_icons_of(s)]

InList(x, list) == \E i \in 1..Len(list) : list[i] = x


(***************************************************************************)
(* browse(curdir): the parent and current pseudo-entries, then the         *)
(* children in enumeration order.  An item is its path and its kind        *)
(* ("D" for KIND_DIRECTORY, "F" for KIND_FILE).                            *)
(***************************************************************************)
Item(path, kind) == [path |-> path, kind |-> kind]

\* the test of show_hidden_files left out
browse_keeps_hidden(c, curdir, entry) ==
    isfile(join_path(curdir, entry))
        => ~InList(splitext(entry), c.ignored_file_types)

browse_keeps(c, curdir, entry) ==
    /\ ~(entry[1] = "." /\ ~c.show_hidden_files)
    /\ isfile(join_path(curdir, entry))
           => ~InList(splitext(entry), c.ignored_file_types)

\* if ext not in self.file_type_icons: ext = '.*'
lookup_key(c, ext) == IF ext \in DOMAIN c.file_type_icons THEN ext ELSE Wildcard

\* self.file_type_icons[ext].name
annotation(c, key) == c.file_type_icons[key].name

\* the annotations of the items, in the order of the items
browse_names(c, curdir) ==
    LET kept == SelectSeq(listdir(curdir), LAMBDA e : browse_keeps(c, curdir, e))
        key(e) == IF isfile(join_path(curdir, e))
                  THEN lookup_key(c, splitext(e)) ELSE None
    IN  <<"parent " \o annotation(c, None), "current " \o annotation(c, None)>>
            \o [i \in 1..Len(kept) |-> annotation(c, key(kept[i]))]

browse_items(c, curdir) ==
    LET kept == SelectSeq(listdir(curdir), LAMBDA e : browse_keeps(c, curdir, e))
        child(e) == Item(join_path(curdir, e),
                         IF isfile(join_path(curdir, e)) THEN "F" ELSE "D")
    IN  <<Item(pardir_of(curdir), "D"), Item(curdir, "D")>>
            \o [i \in 1..Len(kept) |-> child(kept[i])]

(***************************************************************************)
(* list_files(path): one iteration of the os.walk loop lists one           *)
(* directory (top-down, a directory that cannot be read yields nothing),   *)
(* prunes its subdirectories and collects its files.                       *)
(***************************************************************************)
\* descends into every subdirectory
walk_dirs_unpruned(c, root) ==
    LET subdirs == SelectSeq(listdir(root), LAMBDA e : isdir(join_path(root, e)))
    IN  [i \in 1..Len(subdirs) |-> join_path(root, subdirs[i])]

walk_dirs(c, root) ==
    LET subdirs == SelectSeq(listdir(root), LAMBDA e : isdir(join_path(root, e)))
        kept    == SelectSeq(subdirs, LAMBDA d : ~match(c.exclude_folder, d))
    IN  [i \in 1..Len(kept) |-> join_path(root, kept[i])]

walk_files(c, root) ==
    LET files == SelectSeq(listdir(root), LAMBDA e : ~isdir(join_path(root, e)))
        kept  == SelectSeq(files, LAMBDA f :
                     /\ ~match(c.exclude_file, f)
                     /\ ~InList(splitext(f), c.ignored_file_types))
    IN  [i \in 1..Len(kept) |-> Item(join_path(root, kept[i]), "F")]

walk_names(c, root) ==
    LET files == SelectSeq(listdir(root), LAMBDA e : ~isdir(join_path(root, e)))
        kept  == SelectSeq(files, LAMBDA f :
                     /\ ~match(c.exclude_file, f)
                     /\ ~InList(splitext(f), c.ignored_file_types))
    IN  [i \in 1..Len(kept) |-> annotation(c, lookup_key(c, splitext(kept[i])))]

\* joins without the separator
RECURSIVE join_lines_nosep(_)
join_lines_nosep(list) ==
    IF list = <<>> THEN "" ELSE list[1] \o join_lines_nosep(Tail(list))

\* '\n'.join(path_list)
RECURSIVE join_lines(_)
join_lines(list) ==
    IF list = <<>> THEN ""
    ELSE IF Len(list) = 1 THEN list[1]
    ELSE list[1] \o "\n" \o join_lines(Tail(list))

(***************************************************************************)
(* StatusBarThread.update_status_bar, and the texts written under the      *)
(* status key.                                                             *)
(***************************************************************************)
\* turns at the right end only
next_step_right_only(state, step) == IF state = 7 THEN -step ELSE step

next_step(state, step) == IF state = 0 \/ state = 7 THEN -step ELSE step
next_state(state, step) == state + next_step(state, step)

RECURSIVE spaces(_)
spaces(n) == IF n <= 0 THEN "" ELSE " " \o spaces(n - 1)
\* the marker counted from the right end
status_frame_mirrored(state) ==
    "[" \o spaces(7 - state) \o "=" \o spaces(state) \o "]"

status_frame(state) == "[" \o spaces(state) \o "=" \o spaces(7 - state) \o "]"

\* StatusBarTask.status_message() and finish_message()
status_message(state) == "Listing files... " \o status_frame(state)
finish_message == "Done"

(***************************************************************************)
(* State.                                                                  *)
(*   cls         the class attributes initialize() set                     *)
(*   path_list   QuickPanelFileBrowser.path_list: window id -> saved paths *)
(*   clipboard   the system clipboard                                      *)
(*   sessions    the QuickPanelFileBrowser objects, in creation order, and *)
(*               for each the quick panel it shows (panel: "none" never    *)
(*               shown, "open" awaiting on_done, "closed")                 *)
(*   thread      the worker thread of the deep scan: pc is "walk" in the   *)
(*               os.walk loop, "present" before show_quick_panel, "exit"   *)
(*               after it, "dead" once is_alive() is false; where the loop *)
(*               is followed file by file, pc is "file" before a file of   *)
(*               root is tested and "lookup" before its category is looked *)
(*               up under the key ext; exc is the exception that ended the *)
(*               thread                                                    *)
(*   sb          the StatusBarThread polling it: poll is "sync" before the *)
(*               call of update_status_message in __init__, "armed" with a *)
(*               100 ms timer pending, "done" after the completion update; *)
(*               cleanup is the view whose erase_status is pending,        *)
(*               timers the number of pending 100 ms timers, completions   *)
(*               the number of completion updates made                     *)
(*   active      the active view of the scan's window                      *)
(*   view_status view -> the status text under the StatusBarThread's key   *)
(*   event       the handler that ran last and what it reported            *)
(***************************************************************************)
VARIABLES cls, path_list, clipboard, sessions, thread, sb, active,
          view_status, event

vars == <<cls, path_list, clipboard, sessions, thread, sb, active,
          view_status, event>>

NoEvent ==
    [op |-> "", w |-> 0, sid |-> 0, mod |-> FALSE, path |-> EmptyStr,
     exc |-> "", msg |-> ""]

Ev(op, w, sid) == [NoEvent EXCEPT !.op = op, !.w = w, !.sid = sid]

NoThread == [pc |-> "none", sid |-> 0, stack |-> <<>>, items |-> <<>>,
             names |-> <<>>, shown |-> 0, root |-> EmptyStr, files |-> <<>>,
             ext |-> <<>>, exc |-> ""]
NoSb     == [poll |-> "none", state |-> 0, step |-> 0, ticks |-> 0,
             last_view |-> 0, cleanup |-> 0, window |-> 0,
             timers |-> 0, completions |-> 0]

\* The interactive thread is inside StatusBarThread.__init__ between
\* thread.start() and the first update_status_message().
UiIdle == sb.poll # "sync"

Init ==
    /\ cls \in {initialize(s) : s \in SettingsSet}
    /\ path_list = << >>
    /\ clipboard = ""
    /\ sessions = << >>
    /\ thread = NoThread
    /\ sb = NoSb
    /\ active \in Views
    /\ view_status = [v \in Views |-> ""]
    /\ event = NoEvent

\* names: the annotations of the items.  rules: the class attributes at the
\* call of __init__; the object keeps no copy of them, every listing reads
\* the class (recorded here for the properties only).
Session(w, dir, recursive, panel, curdir, items, names) ==
    [window |-> w, init_path |-> dir, recursive |-> recursive, panel |-> panel,
     curdir |-> curdir, items |-> items, names |-> names, rules |-> cls]

(***************************************************************************)
(* QuickPanelFileBrowser.__init__(window, path, recursive=False).  limit   *)
(* bounds the objects created in one run.                                  *)
(***************************************************************************)
start_dir(path) == IF isfile(path) THEN dirname(path) ELSE path

\* replaces the whole table instead of one entry
reset_path_list_all(w) == [x \in {w} |-> << >>]

reset_path_list(w) == [x \in DOMAIN path_list \cup {w} |->
                          IF x = w THEN << >> ELSE path_list[x]]

\* the return after error_message left out
StartInvalid_falls_through(w, path) ==
    /\ UiIdle
    /\ ~isfile(path) /\ ~isdir(path)
    /\ path_list' = reset_path_list(w)
    /\ event' = [Ev("start", w, 0) EXCEPT !.path = path, !.msg = "error_message"]
    /\ UNCHANGED <<cls, clipboard, sessions, thread, sb, active, view_status>>

\* neither a file nor a directory: error_message, return
StartInvalid(w, path) ==
    /\ UiIdle
    /\ ~isfile(path) /\ ~isdir(path)
    /\ event' = [Ev("start", w, 0) EXCEPT !.path = path, !.msg = "error_message"]
    /\ UNCHANGED <<cls, path_list, clipboard, sessions, thread, sb, active,
                   view_status>>

\* recursive = False
StartBrowse(w, path, limit) ==
    /\ UiIdle
    /\ isfile(path) \/ isdir(path)
    /\ Len(sessions) < limit
    /\ path_list' = reset_path_list(w)
    /\ LET dir == start_dir(path) IN
         IF listdir_ok(dir)
         THEN /\ sessions' = Append(sessions,
                    Session(w, dir, FALSE, "open", dir, browse_items(cls, dir),
                            browse_names(cls, dir)))
              /\ event' = [Ev("start", w, Len(sessions) + 1) EXCEPT !.path = path]
         ELSE \* os.listdir raises inside browse: the exception leaves __init__
              /\ sessions' = Append(sessions,
                    Session(w, dir, FALSE, "none", EmptyStr, << >>, << >>))
              /\ event' = [Ev("start", w, Len(sessions) + 1) EXCEPT
                              !.path = path, !.exc = "PermissionError"]
    /\ UNCHANGED <<cls, clipboard, thread, sb, active, view_status>>

\* recursive = True: StatusBarThread(task, window) up to thread.start()
StartDeep(w, path, limit) ==
    /\ UiIdle
    /\ isfile(path) \/ isdir(path)
    /\ Len(sessions) < limit
    /\ thread.pc = "none"
    /\ path_list' = reset_path_list(w)
    /\ sessions' = Append(sessions,
           Session(w, start_dir(path), TRUE, "none", EmptyStr, << >>, << >>))
    /\ thread' = [pc |-> "walk", sid |-> Len(sessions) + 1,
                  stack |-> <<start_dir(path)>>, items |-> << >>,
                  names |-> << >>, shown |-> 0, root |-> EmptyStr,
                  files |-> << >>, ext |-> << >>, exc |-> ""]
    /\ sb' = [poll |-> "sync", state |-> 7, step |-> 1, ticks |-> 0,
              last_view |-> 0, cleanup |-> 0, window |-> w,
              timers |-> 0, completions |-> 0]
    /\ event' = [Ev("start", w, Len(sessions) + 1) EXCEPT !.path = path, !.mod = TRUE]
    /\ UNCHANGED <<cls, clipboard, active, view_status>>

(***************************************************************************)
(* QuickFileBrowserSavePathCommand.run(path)                               *)
(***************************************************************************)
\* an entry is created for a window that has none
save_path_setdefault(w, path) ==
    [x \in DOMAIN path_list \cup {w} |->
        IF x = w
        THEN IF w \in DOMAIN path_list THEN Append(path_list[w], path)
             ELSE <<path>>
        ELSE path_list[x]]

\* path_list.get(self.window.id(), []).append(path)
save_path(w, path) ==
    IF w \in DOMAIN path_list
    THEN [path_list EXCEPT ![w] = Append(@, path)]
    ELSE path_list

SavePath(w, path) ==
    /\ UiIdle
    /\ w \in DOMAIN path_list => Len(path_list[w]) < MaxSaved
    /\ path_list' = save_path(w, path)
    /\ event' = [Ev("save", w, 0) EXCEPT !.msg = "Saved"]
    /\ UNCHANGED <<cls, clipboard, sessions, thread, sb, active, view_status>>

(***************************************************************************)
(* show_quick_panel.on_done(index, event)                                  *)
(***************************************************************************)
pop_path_list(w) == [x \in DOMAIN path_list \ {w} |-> path_list[x]]

\* index == -1
Dismiss(sid) ==
    /\ UiIdle
    /\ sid \in 1..Len(sessions)
    /\ sessions[sid].panel = "open"
    /\ sessions' = [sessions EXCEPT ![sid].panel = "closed"]
    /\ LET w == sessions[sid].window IN
         IF w \in DOMAIN path_list
         THEN /\ path_list' = pop_path_list(w)
              /\ IF path_list[w] # << >>
                 THEN /\ clipboard' = join_lines(path_list[w])
                      /\ event' = [Ev("dismiss", w, sid) EXCEPT !.msg = "Copied"]
                 ELSE /\ clipboard' = clipboard
                      /\ event' = Ev("dismiss", w, sid)
         ELSE \* dict.pop without a default raises KeyError
              /\ event' = [Ev("dismiss", w, sid) EXCEPT !.exc = "KeyError"]
              /\ UNCHANGED <<path_list, clipboard>>
    /\ UNCHANGED <<cls, thread, sb, active, view_status>>

\* the list is not shown again with the modifier held
SelectFile_never_reshows(sid, index, primary) ==
    /\ UiIdle
    /\ sid \in 1..Len(sessions)
    /\ sessions[sid].panel = "open"
    /\ index \in 1..Len(sessions[sid].items)
    /\ sessions[sid].items[index].kind = "F"
    /\ sessions' = [sessions EXCEPT ![sid].panel = "closed"]
    /\ event' = [Ev("open_file", sessions[sid].window, sid) EXCEPT
                    !.mod = primary, !.path = sessions[sid].items[index].path]
    /\ UNCHANGED <<cls, path_list, clipboard, thread, sb, active, view_status>>

\* index >= 0 on an item of KIND_FILE
SelectFile(sid, index, primary) ==
    /\ UiIdle
    /\ sid \in 1..Len(sessions)
    /\ sessions[sid].panel = "open"
    /\ index \in 1..Len(sessions[sid].items)
    /\ sessions[sid].items[index].kind = "F"
    /\ sessions' = [sessions EXCEPT ![sid].panel =
                        IF primary THEN "open" ELSE "closed"]
    /\ event' = [Ev("open_file", sessions[sid].window, sid) EXCEPT
                    !.mod = primary, !.path = sessions[sid].items[index].path]
    /\ UNCHANGED <<cls, path_list, clipboard, thread, sb, active, view_status>>

\* the except branch reports the error and does not show the list again
SelectDir_error_closes(sid, index) ==
    /\ UiIdle
    /\ sid \in 1..Len(sessions)
    /\ sessions[sid].panel = "open"
    /\ index \in 1..Len(sessions[sid].items)
    /\ sessions[sid].items[index].kind = "D"
    /\ LET path == sessions[sid].items[index].path
           base == [Ev("select_dir", sessions[sid].window, sid) EXCEPT
                       !.path = path]
       IN  IF path # sessions[sid].curdir
           THEN IF listdir_ok(path)
                THEN /\ sessions' = [sessions EXCEPT
                            ![sid].curdir = path,
                            ![sid].items = browse_items(cls, path),
                            ![sid].names = browse_names(cls, path)]
                     /\ event' = base
                ELSE /\ sessions' = [sessions EXCEPT ![sid].panel = "closed"]
                     /\ event' = [base EXCEPT !.msg = "status_error"]
           ELSE /\ sessions' = sessions
                /\ event' = base
    /\ UNCHANGED <<cls, path_list, clipboard, thread, sb, active, view_status>>

\* index >= 0 on an item of KIND_DIRECTORY
SelectDir(sid, index) ==
    /\ UiIdle
    /\ sid \in 1..Len(sessions)
    /\ sessions[sid].panel = "open"
    /\ index \in 1..Len(sessions[sid].items)
    /\ sessions[sid].items[index].kind = "D"
    /\ LET path == sessions[sid].items[index].path
           base == [Ev("select_dir", sessions[sid].window, sid) EXCEPT
                       !.path = path]
       IN  IF path # sessions[sid].curdir
           THEN IF listdir_ok(path)
                THEN /\ sessions' = [sessions EXCEPT
                            ![sid].curdir = path,
                            ![sid].items = browse_items(cls, path),
                            ![sid].names = browse_names(cls, path)]
                     /\ event' = base
                ELSE \* except Exception as e: status_message(str(e)); show(items)
                     /\ sessions' = sessions
                     /\ event' = [base EXCEPT !.msg = "status_error"]
           ELSE /\ sessions' = sessions
                /\ event' = base
    /\ UNCHANGED <<cls, path_list, clipboard, thread, sb, active, view_status>>

(***************************************************************************)
(* The worker thread: threading.Thread(target=lambda: list_files(path))    *)
(***************************************************************************)
\* one iteration of `for root, dirs, files in os.walk(path)`
WorkerWalk ==
    /\ thread.pc = "walk"
    /\ LET root == Head(thread.stack)
           rest == IF listdir_ok(root)
                   THEN walk_dirs(cls, root) \o Tail(thread.stack)
                   ELSE Tail(thread.stack)
           found == IF listdir_ok(root) THEN walk_files(cls, root) ELSE << >>
           named == IF listdir_ok(root) THEN walk_names(cls, root) ELSE << >>
       IN  thread' = [thread EXCEPT
                         !.stack = rest,
                         !.items = @ \o found,
                         !.names = @ \o named,
                         !.pc = IF rest = << >> THEN "present" ELSE "walk"]
    /\ event' = Ev("walk", sb.window, thread.sid)
    /\ UNCHANGED <<cls, path_list, clipboard, sessions, sb, active, view_status>>

\* self.show_quick_panel(paths, items, '')
WorkerPresent ==
    /\ thread.pc = "present"
    /\ sessions' = [sessions EXCEPT
                       ![thread.sid].panel = "open",
                       ![thread.sid].curdir = EmptyStr,
                       ![thread.sid].items = thread.items,
                       ![thread.sid].names = thread.names]
    /\ thread' = [thread EXCEPT !.pc = "exit", !.shown = @ + 1]
    /\ event' = Ev("present", sb.window, thread.sid)
    /\ UNCHANGED <<cls, path_list, clipboard, sb, active, view_status>>

\* the thread's function returns: is_alive() is False from here on
WorkerExit ==
    /\ thread.pc = "exit"
    /\ thread' = [thread EXCEPT !.pc = "dead"]
    /\ event' = Ev("exit", sb.window, thread.sid)
    /\ UNCHANGED <<cls, path_list, clipboard, sessions, sb, active, view_status>>

(***************************************************************************)
(* The same loop followed file by file, for the runs in which initialize() *)
(* runs on the interactive thread while the worker is in the loop.  The    *)
(* worker reads the class attributes when it uses them: exclude_folder at  *)
(* line 138, exclude_file, ignored_file_types and file_type_icons at lines *)
(* 140-146, file_type_icons again at lines 150-151.                        *)
(***************************************************************************)
after_file(files, stack) ==
    IF files # << >> THEN "file" ELSE IF stack = << >> THEN "present" ELSE "walk"

\* os.walk yields (root, dirs, files); dirs[:] = [d ... not exclude_folder(d)]
WorkerListDir ==
    /\ thread.pc = "walk"
    /\ LET root  == Head(thread.stack)
           rest  == IF listdir_ok(root)
                    THEN walk_dirs(cls, root) \o Tail(thread.stack)
                    ELSE Tail(thread.stack)
           files == IF listdir_ok(root)
                    THEN SelectSeq(listdir(root),
                                   LAMBDA e : ~isdir(join_path(root, e)))
                    ELSE << >>
       IN  thread' = [thread EXCEPT !.stack = rest, !.root = root,
                                    !.files = files,
                                    !.pc = after_file(files, rest)]
    /\ event' = Ev("walk", sb.window, thread.sid)
    /\ UNCHANGED <<cls, path_list, clipboard, sessions, sb, active, view_status>>

\* lines 140-146: the two filters and the membership test
WorkerCheck ==
    /\ thread.pc = "file"
    /\ LET file == Head(thread.files)
           ext  == splitext(file)
       IN  IF match(cls.exclude_file, file) \/ InList(ext, cls.ignored_file_types)
           THEN thread' = [thread EXCEPT
                              !.files = Tail(@),
                              !.pc = after_file(Tail(thread.files), thread.stack)]
           ELSE thread' = [thread EXCEPT !.ext = lookup_key(cls, ext),
                                         !.pc = "lookup"]
    /\ event' = Ev("check", sb.window, thread.sid)
    /\ UNCHANGED <<cls, path_list, clipboard, sessions, sb, active, view_status>>

\* the KeyError is swallowed and the loop goes on to present the list
WorkerLookup_swallows ==
    /\ thread.pc = "lookup"
    /\ LET file == Head(thread.files) IN
         IF thread.ext \in DOMAIN cls.file_type_icons
         THEN /\ thread' = [thread EXCEPT
                    !.items = Append(@, Item(join_path(thread.root, file), "F")),
                    !.names = Append(@, annotation(cls, thread.ext)),
                    !.files = Tail(@),
                    !.pc = after_file(Tail(thread.files), thread.stack)]
              /\ event' = Ev("lookup", sb.window, thread.sid)
         ELSE /\ thread' = [thread EXCEPT !.exc = "KeyError", !.pc = "present"]
              /\ event' = [Ev("lookup", sb.window, thread.sid) EXCEPT
                              !.exc = "KeyError"]
    /\ UNCHANGED <<cls, path_list, clipboard, sessions, sb, active, view_status>>

\* lines 150-161: self.file_type_icons[ext] in action_tags and for the
\* annotation, then the appends.  A KeyError leaves list_files and ends the
\* thread.
WorkerLookup ==
    /\ thread.pc = "lookup"
    /\ LET file == Head(thread.files) IN
         IF thread.ext \in DOMAIN cls.file_type_icons
         THEN /\ thread' = [thread EXCEPT
                    !.items = Append(@, Item(join_path(thread.root, file), "F")),
                    !.names = Append(@, annotation(cls, thread.ext)),
                    !.files = Tail(@),
                    !.pc = after_file(Tail(thread.files), thread.stack)]
              /\ event' = Ev("lookup", sb.window, thread.sid)
         ELSE /\ thread' = [thread EXCEPT !.exc = "KeyError", !.pc = "dead"]
              /\ event' = [Ev("lookup", sb.window, thread.sid) EXCEPT
                              !.exc = "KeyError"]
    /\ UNCHANGED <<cls, path_list, clipboard, sessions, sb, active, view_status>>

\* reported dead as soon as the walk has ended
is_alive_while_walking == thread.pc = "walk"

\* thread.is_alive()
is_alive == thread.pc # "dead"

(***************************************************************************)
(* StatusBarThread                                                         *)
(***************************************************************************)
\* the status of the view written to before is left in place
show_status_message_keeps_last(vs, last_view, message) ==
    [vs EXCEPT ![active] = message]

\* show_status_message(message): the view_status it leaves
show_status_message(vs, last_view, message) ==
    LET set == [vs EXCEPT ![active] = message]
    IN  IF last_view # active /\ last_view # 0
        THEN [set EXCEPT ![last_view] = ""]
        ELSE set

\* the timer is set again whether or not the thread is alive
rearm_always(alive, pending) == pending + 1

\* else: sublime.set_timeout(self.update_status_message, 100)
rearm(alive, pending) == IF alive THEN pending + 1 ELSE pending

\* update_status_message(): called by __init__, then by each 100 ms timer
\* that expires
Tick ==
    /\ sb.poll = "sync" \/ sb.timers > 0
    /\ sb.ticks < MaxTicks
    /\ LET step  == next_step(sb.state, sb.step)
           state == next_state(sb.state, sb.step)
           shown == show_status_message(view_status, sb.last_view,
                                        status_message(state))
           pending == IF sb.poll = "sync" THEN sb.timers ELSE sb.timers - 1
       IN  IF ~is_alive
           THEN /\ view_status' = [shown EXCEPT ![active] = finish_message]
                /\ sb' = [sb EXCEPT !.state = state, !.step = step,
                                    !.ticks = @ + 1, !.last_view = active,
                                    !.cleanup = active, !.poll = "done",
                                    !.timers = rearm(FALSE, pending),
                                    !.completions = @ + 1]
                /\ event' = [Ev("tick", sb.window, thread.sid) EXCEPT
                                !.msg = finish_message]
           ELSE /\ view_status' = shown
                /\ sb' = [sb EXCEPT !.state = state, !.step = step,
                                    !.ticks = @ + 1, !.last_view = active,
                                    !.poll = "armed",
                                    !.timers = rearm(TRUE, pending)]
                /\ event' = Ev("tick", sb.window, thread.sid)
    /\ UNCHANGED <<cls, path_list, clipboard, sessions, thread, active>>

\* the 2000 ms timer: cleanup(self.key)
Cleanup ==
    /\ UiIdle
    /\ sb.cleanup # 0
    /\ view_status' = [view_status EXCEPT ![sb.cleanup] = ""]
    /\ sb' = [sb EXCEPT !.cleanup = 0]
    /\ event' = Ev("cleanup", sb.window, thread.sid)
    /\ UNCHANGED <<cls, path_list, clipboard, sessions, thread, active>>

(***************************************************************************)
(* QuickPanelFileBrowser.initialize(), the on_change callback of the       *)
(* settings: it runs on the interactive thread, whole between two          *)
(* handlers of that thread.                                                *)
(***************************************************************************)
Initialize(s) ==
    /\ UiIdle
    /\ cls' = initialize(s)
    /\ event' = Ev("reload", 0, 0)
    /\ UNCHANGED <<path_list, clipboard, sessions, thread, sb, active,
                   view_status>>

(***************************************************************************)
(* initialize() as the worker thread sees it: lines 280-287 rebind the     *)
(* matchers, the flag, the ignored types and an empty file_type_icons;     *)
(* lines 289-302 fill that table.  The table is empty only between the     *)
(* two, and the settings being loaded are the ones whose first part is in  *)
(* place.  No other handler of the interactive thread runs in between.     *)
(***************************************************************************)
initialize_head(s) == [initialize(s) EXCEPT !.file_type_icons = << >>]

Reloading == DOMAIN cls.file_type_icons = {}

InitializeBegin(s) ==
    /\ UiIdle
    /\ ~Reloading
    /\ cls' = initialize_head(s)
    /\ event' = Ev("reload", 0, 0)
    /\ UNCHANGED <<path_list, clipboard, sessions, thread, sb, active,
                   view_status>>

InitializeEnd ==
    /\ Reloading
    /\ \E s \in SettingsSet :
           /\ cls = initialize_head(s)
           /\ cls' = initialize(s)
    /\ event' = Ev("reloaded", 0, 0)
    /\ UNCHANGED <<path_list, clipboard, sessions, thread, sb, active,
                   view_status>>

Scanning_started == sb.poll # "none"

\* the user activates another view of the window
SwitchView(v) ==
    /\ UiIdle
    /\ v # active
    /\ active' = v
    /\ event' = Ev("switch_view", 0, 0)
    /\ UNCHANGED <<cls, path_list, clipboard, sessions, thread, sb, view_status>>

(***************************************************************************)
(* Spec: one shallow session in one window, every selection followed.      *)
(***************************************************************************)
StartPaths == {<<n_p>>, <<n_p, n_s, f_me>>, <<n_p, n_s, n_u>>, <<n_g>>}
MaxIndex   == 7     \* the longest listing of the filesystem has 7 items

Next ==
    \/ \E path \in StartPaths : StartInvalid(1, path)
    \/ \E path \in StartPaths : StartBrowse(1, path, 1)
    \/ \E path \in SavePaths : SavePath(1, path)
    \/ Dismiss(1)
    \/ \E index \in 1..MaxIndex, primary \in BOOLEAN : SelectFile(1, index, primary)
    \/ \E index \in 1..MaxIndex : SelectDir(1, index)
    \/ \E s \in SettingsSet : Initialize(s)

Spec == Init /\ [][Next]_vars

(***************************************************************************)
(* SpecTable: several sessions in several windows and the saved-paths      *)
(* table they share.  Directory selections change only the listing of a    *)
(* session (Spec follows them) and are left out here.                      *)
(***************************************************************************)
TablePaths == {<<n_p, n_g, n_n, f_je>>, <<n_g>>}

InitTable == Init /\ cls = initialize(DefaultSettings) /\ active = 1

NextTable ==
    \/ \E w \in Windows, path \in TablePaths : StartInvalid(w, path)
    \/ \E w \in Windows, path \in TablePaths : StartBrowse(w, path, MaxSessions)
    \/ \E w \in Windows, path \in SavePaths : SavePath(w, path)
    \/ \E sid \in 1..MaxSessions : Dismiss(sid)
    \/ \E sid \in 1..MaxSessions, index \in 1..MaxIndex, primary \in BOOLEAN :
           SelectFile(sid, index, primary)

SpecTable == InitTable /\ [][NextTable]_vars

(***************************************************************************)
(* SpecDeep: one deep-mode session, its worker thread and its polling      *)
(* loop.                                                                   *)
(***************************************************************************)
DeepPaths == {<<n_p>>, <<n_p, n_s, f_me>>, <<n_g>>}

NextDeep ==
    \/ \E path \in DeepPaths : StartInvalid(1, path)
    \/ \E path \in DeepPaths : StartDeep(1, path, 1)
    \/ \E path \in SavePaths : SavePath(1, path)
    \/ Dismiss(1)
    \/ \E index \in 1..MaxIndex, primary \in BOOLEAN : SelectFile(1, index, primary)
    \/ WorkerWalk
    \/ WorkerPresent
    \/ WorkerExit
    \/ Tick
    \/ Cleanup
    \/ \E v \in Views : SwitchView(v)

SpecDeep == Init /\ [][NextDeep]_vars

(***************************************************************************)
(* SpecLive: one deep scan of /p/g and its polling loop, the active view   *)
(* changing once the scan has started.  sublime.set_timeout runs every     *)
(* callback it was given: the pending poll and the pending clear are       *)
(* eventually run.  Nothing is assumed of the worker thread.               *)
(***************************************************************************)
LivePaths == {<<n_p, n_g>>}

NextLive ==
    \/ \E path \in LivePaths : StartDeep(1, path, 1)
    \/ WorkerWalk
    \/ WorkerPresent
    \/ WorkerExit
    \/ Tick
    \/ Cleanup
    \/ \E v \in Views : Scanning_started /\ SwitchView(v)

SpecLive == InitTable /\ [][NextLive]_vars /\ WF_vars(Tick) /\ WF_vars(Cleanup)

(***************************************************************************)
(* SpecRace: one deep scan of /p/g followed file by file, with             *)
(* configuration reloads on the interactive thread while it runs.          *)
(***************************************************************************)
RacePaths == {<<n_p, n_g>>}

InitRace == Init /\ active = 1

NextRace ==
    \/ \E path \in RacePaths : ~Reloading /\ StartDeep(1, path, 1)
    \/ ~Reloading /\ SavePath(1, "a")
    \/ ~Reloading /\ Dismiss(1)
    \/ WorkerListDir
    \/ WorkerCheck
    \/ WorkerLookup
    \/ WorkerPresent
    \/ WorkerExit
    \/ ~Reloading /\ Tick
    \/ ~Reloading /\ Cleanup
    \/ \E s \in SettingsSet : InitializeBegin(s)
    \/ InitializeEnd

SpecRace == InitRace /\ [][NextRace]_vars

(***************************************************************************)
(* Properties.                                                             *)
(***************************************************************************)
Has(w)  == w \in DOMAIN path_list
Has2(w) == w \in DOMAIN path_list'

\* the elements of a non-empty list separated by single newlines, built
\* from the last element backwards
RECURSIVE LinesOf(_)
LinesOf(list) ==
    IF Len(list) = 1 THEN list[1]
    ELSE LinesOf(SubSeq(list, 1, Len(list) - 1)) \o "\n" \o list[Len(list)]

IsPrefix(s, t) == Len(s) <= Len(t) /\ SubSeq(t, 1, Len(s)) = s

\* C1: a dismissal (index -1) of a panel on window w removes w's entry from
\* the saved-paths table; a non-empty removed list is copied to the clipboard
\* as its elements joined by single newlines, an empty one leaves the
\* clipboard as it was.  The list is in the order of the saves: a save puts
\* its path after the ones already there.
C1_DismissFlushes ==
    [][ /\ event'.op = "dismiss" =>
              /\ ~Has2(event'.w)
              /\ IF Has(event'.w) /\ path_list[event'.w] # << >>
                 THEN clipboard' = LinesOf(path_list[event'.w])
                 ELSE clipboard' = clipboard
        /\ (event'.op = "save" /\ Has(event'.w)) =>
              /\ Has2(event'.w)
              /\ Len(path_list'[event'.w]) = Len(path_list[event'.w]) + 1
              /\ IsPrefix(path_list[event'.w], path_list'[event'.w])
      ]_vars

\* C1 witness: the list ["a", "b"] of a window has just been flushed.
C1_Witness ==
    /\ event.op = "dismiss"
    /\ event.msg = "Copied"
    /\ ~Has(event.w)
    /\ clipboard = "a\nb"

\* C8: a session started on window w with a valid path leaves w with an
\* empty saved-paths list, whatever an earlier session on w had saved, and
\* leaves the entries of the other windows as they were.
C8_StartResetsOwnList ==
    [][ (event'.op = "start" /\ event'.msg # "error_message") =>
            /\ Has2(event'.w)
            /\ path_list'[event'.w] = << >>
            /\ \A x \in Windows \ {event'.w} :
                   /\ Has2(x) <=> Has(x)
                   /\ Has(x) => path_list'[x] = path_list[x]
      ]_vars

\* C8 witness: a second session has just started on the window of a first
\* one that was never dismissed, and nothing was flushed to the clipboard.
C8_Witness ==
    /\ event.op = "start"
    /\ event.sid = 2
    /\ sessions[1].window = event.w
    /\ sessions[2].window = event.w
    /\ sessions[1].panel # "none"
    /\ path_list[event.w] = << >>
    /\ clipboard = ""

\* the directory d lies directly in, the root lying in itself
ParentOf(d) == IF Len(d) = 0 THEN d ELSE [i \in 1..(Len(d) - 1) |-> d[i]]

Listing(s, d) == s.panel = "open" /\ s.curdir = d

\* C3: in Listing(d) the first two items are d's parent directory and d;
\* selecting a directory-kind item whose path is d leaves the session as it
\* is (same item list shown again), selecting any other directory-kind item
\* whose listing succeeds moves the session to Listing(that path).
C3_DirectorySelection ==
    [][ /\ \A sid \in 1..Len(sessions') :
              (~sessions'[sid].recursive /\ sessions'[sid].panel = "open") =>
                  /\ sessions'[sid].items[1] = Item(ParentOf(sessions'[sid].curdir), "D")
                  /\ sessions'[sid].items[2] = Item(sessions'[sid].curdir, "D")
        /\ event'.op = "select_dir" =>
              LET s == sessions[event'.sid]
                  p == event'.path
              IN  /\ p = s.curdir => sessions' = sessions
                  /\ (p # s.curdir /\ listdir_ok(p)) =>
                         /\ Listing(sessions'[event'.sid], p)
                         /\ sessions'[event'.sid].init_path = s.init_path
      ]_vars

\* C3 witness: started on the file /p/s/m.e, moved to the parent /p, and
\* selected the current entry of /p.
C3_Witness ==
    /\ event.op = "select_dir"
    /\ event.path = <<n_p>>
    /\ sessions[1].init_path = <<n_p, n_s>>
    /\ Listing(sessions[1], <<n_p>>)

\* C4: a session started on an existing path is in Listing(start-directory),
\* start-directory being the path if it is a directory and the directory
\* holding it if it is a file; that directory is the anchor path and the
\* window's saved-paths list exists and is empty.
C4_StartsInListing ==
    (event.op = "start" /\ event.msg # "error_message" /\ ~event.mod) =>
        LET d == IF isdir(event.path) THEN event.path ELSE ParentOf(event.path)
        IN  /\ Listing(sessions[event.sid], d)
            /\ sessions[event.sid].init_path = d
            /\ Has(event.w)
            /\ path_list[event.w] = << >>

\* C6: selecting a directory item other than the current one whose listing
\* raises reports the error as a status message and changes nothing else:
\* same listing shown, same anchor, same saved-paths table and clipboard.
C6_ListingErrorKeepsState ==
    [][ ( /\ event'.op = "select_dir"
          /\ event'.path # sessions[event'.sid].curdir
          /\ ~listdir_ok(event'.path) ) =>
            /\ event'.msg = "status_error"
            /\ sessions' = sessions
            /\ sessions'[event'.sid].panel = "open"
            /\ path_list' = path_list
            /\ clipboard' = clipboard
      ]_vars

\* C6 witness: the unreadable /p/s/u was selected from Listing(/p/s) with a
\* path saved.
C6_Witness ==
    /\ event.op = "select_dir"
    /\ event.msg = "status_error"
    /\ event.path = <<n_p, n_s, n_u>>
    /\ Listing(sessions[1], <<n_p, n_s>>)
    /\ Has(1) /\ path_list[1] # << >>

\* C7: selecting a file item opens its path; with the primary modifier the
\* same items are shown again and the session is unchanged, without it no
\* panel is shown afterwards; the saved-paths table and the clipboard are as
\* before in both cases.
C7_OpenFileKeepsSession ==
    [][ event'.op = "open_file" =>
            LET s == sessions[event'.sid] IN
            /\ isfile(event'.path)
            /\ \E i \in 1..Len(s.items) : s.items[i] = Item(event'.path, "F")
            /\ event'.mod => sessions' = sessions
            /\ ~event'.mod => sessions' = [sessions EXCEPT ![event'.sid].panel = "closed"]
            /\ path_list' = path_list
            /\ clipboard' = clipboard
      ]_vars

\* C7 witness: a file was opened without the modifier, the panel is gone and
\* the window still has its saved paths.
C7_Witness ==
    /\ event.op = "open_file"
    /\ ~event.mod
    /\ sessions[1].panel = "closed"
    /\ Has(1) /\ path_list[1] = <<"a", "b">>
    /\ clipboard = ""

\* C5: a start on a path that is neither a file nor a directory reports an
\* error and leaves everything as it was: the saved-paths table (an entry is
\* neither created nor reset), the sessions and their panels, the worker
\* thread and the polling loop.
C5_InvalidStartNoState ==
    [][ (event'.op = "start" /\ ~isfile(event'.path) /\ ~isdir(event'.path)) =>
            /\ event'.msg = "error_message"
            /\ path_list' = path_list
            /\ sessions' = sessions
            /\ thread' = thread
            /\ sb' = sb
            /\ clipboard' = clipboard
      ]_vars

\* C5 witness: the error was reported for a window that keeps its two saved
\* paths.
C5_Witness ==
    /\ event.op = "start"
    /\ event.msg = "error_message"
    /\ Has(event.w) /\ path_list[event.w] = <<"a", "b">>

Scanning == sb.poll # "none"

Abs(n) == IF n < 0 THEN -n ELSE n

\* C9 as the specification states it: the marker starts at position 0
\* moving up, is at 7 after 7 ticks and at 6 after 8, with period 14.
C9_Original ==
    Scanning =>
        /\ sb.ticks = 0 => sb.state = 0
        /\ sb.ticks = 7 => sb.state = 7
        /\ sb.ticks = 8 => sb.state = 6
        /\ sb.state = 7 - Abs(7 - (sb.ticks % 14))

\* C9 as the code has it: the marker starts at position 7 and its first tick
\* turns it downwards: it is at 6 after 1 tick, at 0 after 7 ticks, at 1
\* moving up after 8 ticks, and after n ticks where it was after n - 14.
C9_MarkerFromSeven ==
    Scanning =>
        /\ sb.ticks = 0 => sb.state = 7 /\ sb.step = 1
        /\ sb.ticks = 1 => sb.state = 6 /\ sb.step = -1
        /\ sb.ticks = 7 => sb.state = 0 /\ sb.step = -1
        /\ sb.ticks = 8 => sb.state = 1 /\ sb.step = 1
        /\ sb.state = Abs(7 - (sb.ticks % 14))

\* C9 witness: one tick past a full period.
C9_Witness == Scanning /\ sb.ticks = 15 /\ sb.state = 6

\* the names of the directories between root (excluded) and the file
DirsBelow(root, path) == {path[k] : k \in (Len(root) + 1)..(Len(path) - 1)}
\* every directory from root down to the one holding the file can be listed
Listable(root, path) ==
    \A k \in Len(root)..(Len(path) - 1) : listdir_ok(SubSeq(path, 1, k))
Beneath(root, path)   == Len(path) > Len(root) /\ SubSeq(path, 1, Len(root)) = root
ScanRoot == sessions[thread.sid].init_path
Collected == {thread.items[i].path : i \in 1..Len(thread.items)}

ExtOf(name) ==
    LET cut == {i \in 1..Len(name) :
                   /\ name[i] = "."
                   /\ \A j \in (i + 1)..Len(name) : name[j] # "."
                   /\ \E j \in 1..(i - 1) : name[j] # "."}
    IN  IF cut = {} THEN << >>
        ELSE LET i == CHOOSE k \in cut : TRUE
             IN  [j \in 1..(Len(name) - i + 1) |-> name[i + j - 1]]

\* the child named e of directory d is left out of d's shallow listing
Omitted(c, d, e) ==
    \/ e[1] = "." /\ ~c.show_hidden_files
    \/ /\ FS[Append(d, e)].type = "file"
       /\ \E i \in 1..Len(c.ignored_file_types) : c.ignored_file_types[i] = ExtOf(e)

\* the children of d that are not left out, in the order of the enumeration
RECURSIVE Shown(_, _, _)
Shown(c, d, children) ==
    IF children = << >> THEN << >>
    ELSE IF Omitted(c, d, children[1])
         THEN Shown(c, d, Tail(children))
         ELSE <<[path |-> Append(d, children[1]),
                 kind |-> IF FS[Append(d, children[1])].type = "file"
                          THEN "F" ELSE "D"]>>
              \o Shown(c, d, Tail(children))

\* the step has built a listing for session sid
Listed(sid) ==
    /\ event'.op \in {"start", "select_dir"}
    /\ event'.sid = sid
    /\ event'.msg = "" /\ event'.exc = ""
    /\ ~sessions'[sid].recursive
    /\ event'.op = "select_dir" => event'.path # sessions[sid].curdir

\* C11: the shallow listing of a readable directory D is [parent of D, D]
\* followed by the children of D in enumeration order, leaving out exactly
\* the children whose name starts with '.' when show_hidden_files is false
\* and the files whose extension is an ignored type; it has at least two
\* items.
C11_ShallowListing ==
    [][ \A sid \in 1..Len(sessions') :
            Listed(sid) =>
                LET s == sessions'[sid]
                    d == s.curdir
                IN  /\ Len(s.items) >= 2
                    /\ s.items[1] = [path |-> ParentOf(d), kind |-> "D"]
                    /\ s.items[2] = [path |-> d, kind |-> "D"]
                    /\ SubSeq(s.items, 3, Len(s.items))
                           = Shown(cls', d, FS[d].children)
      ]_vars

\* C11 witness: /p/s has just been listed with hidden names not shown and
\* '.l' ignored: of m.e, .h, u, a.l, t.o the children m.e, u and t.o follow
\* the two pseudo-entries.
C11_Witness ==
    /\ event.op = "select_dir"
    /\ event.msg = ""
    /\ cls = initialize(FilterSettings)
    /\ Listing(sessions[1], <<n_p, n_s>>)
    /\ [i \in 1..Len(sessions[1].items) |-> sessions[1].items[i].path]
           = << <<n_p>>, <<n_p, n_s>>, <<n_p, n_s, f_me>>, <<n_p, n_s, n_u>>,
                <<n_p, n_s, f_to>> >>

\* the members of the file_types configuration that list the key
Listing_of(fts, key) ==
    {i \in 1..Len(fts) :
         \E j \in 1..Len(fts[i].extensions) : fts[i].extensions[j] = key}

\* the category the configuration gives the key: that of the last member
\* listing it, and the given one when no member lists it
Category(fts, key, otherwise) ==
    IF Listing_of(fts, key) = {} THEN otherwise
    ELSE fts[CHOOSE i \in Listing_of(fts, key) :
                 \A k \in Listing_of(fts, key) : k <= i].name

FileCategory(fts, ext) ==
    IF Listing_of(fts, ext) = {} THEN Category(fts, Wildcard, "file")
    ELSE Category(fts, ext, "")

DirCategory(fts) == Category(fts, None, "folder")

\* C12: after initialize with any file_types configuration, the table holds
\* the wildcard and the directory key; in every listing built, a file whose
\* extension the configuration lists carries the category of the last member
\* listing it, a file whose extension it does not list carries the wildcard
\* category ("file" unless configured), and a directory carries the
\* directory category ("folder" unless configured).
C12_Classification ==
    [][ /\ Wildcard \in DOMAIN cls'.file_type_icons
        /\ None \in DOMAIN cls'.file_type_icons
        /\ \A sid \in 1..Len(sessions') : \A st \in SettingsSet :
               (Listed(sid) /\ cls' = initialize(st)) =>
                   LET s   == sessions'[sid]
                       fts == st.file_types
                   IN  /\ Len(s.names) = Len(s.items)
                       /\ s.names[1] = "parent " \o DirCategory(fts)
                       /\ s.names[2] = "current " \o DirCategory(fts)
                       /\ \A i \in 3..Len(s.items) :
                              s.names[i] =
                                  IF s.items[i].kind = "F"
                                  THEN FileCategory(fts, ExtOf(s.items[i].path[Len(s.items[i].path)]))
                                  ELSE DirCategory(fts)
      ]_vars

\* C12 witness: /p/s listed after a reload to a configuration that lists '.o' twice
\* ("src", then "obj") and defines neither fallback: m.e is "src", u is
\* "folder", t.o is "obj".
C12_Witness ==
    /\ event.op = "select_dir"
    /\ event.msg = "" /\ event.exc = ""
    /\ sessions[1].rules = initialize(DefaultSettings)
    /\ cls = initialize(FilterSettings)
    /\ Listing(sessions[1], <<n_p, n_s>>)
    /\ sessions[1].names
           = <<"parent folder", "current folder", "src", "folder", "obj">>

\* C16: the rules a session's listings use are those of the session's start:
\* every listing built for a session, also after a configuration reload
\* that ran while its panel was open, has the items and the categories that
\* the matchers, the ignored types, the show-hidden flag and the
\* classification table in force when the session started give.
C16_RulesFixedPerSession ==
    [][ \A sid \in 1..Len(sessions') :
            Listed(sid) =>
                LET s == sessions'[sid]
                IN  /\ s.items = browse_items(s.rules, s.curdir)
                    /\ s.names = browse_names(s.rules, s.curdir)
      ]_vars

\* C13: a poll that finds the worker thread alive leaves exactly one poll
\* timer pending and makes no completion update; the poll that finds it not
\* alive makes the completion update (the success message and one pending
\* clear), the only one of the scan, and leaves no poll timer pending; at no
\* time is more than one poll timer pending.
C13_PollingLoop ==
    [][ /\ sb'.timers <= 1
        /\ sb'.completions <= 1
        /\ event'.op = "tick" =>
               IF thread.pc = "dead"
               THEN /\ sb.completions = 0 /\ sb'.completions = 1
                    /\ sb'.timers = 0
                    /\ view_status'[active] = "Done"
                    /\ sb'.cleanup = active
               ELSE /\ sb'.completions = 0
                    /\ sb'.timers = 1
                    /\ sb'.cleanup = 0
      ]_vars

\* C13 witness: the loop has ended after several polls, the completion
\* update was made once and its clear has run.
C13_Witness ==
    /\ sb.completions = 1
    /\ sb.timers = 0
    /\ sb.ticks >= 4
    /\ sb.cleanup = 0
    /\ event.op = "cleanup"

\* the eight frames, by marker position 0..7
Frames ==
    << "[=       ]", "[ =      ]", "[  =     ]", "[   =    ]",
       "[    =   ]", "[     =  ]", "[      = ]", "[       =]" >>

\* the marker position by tick count modulo 14
Positions == <<7, 6, 5, 4, 3, 2, 1, 0, 1, 2, 3, 4, 5, 6>>

\* C15: each animator tick leaves the marker at an integer position in
\* 0..7, one column from where it was; the direction of movement changes at
\* a tick exactly when the marker was at column 0 or 7; the progress text
\* written is '[' + position spaces + '=' + (7 - position) spaces + ']'; the
\* position is determined by the number of ticks made.
C15_MarkerBounces ==
    [][ event'.op = "tick" =>
            /\ sb'.ticks = sb.ticks + 1
            /\ sb'.state \in 0..7
            /\ sb'.step \in {-1, 1}
            /\ sb'.state - sb.state = sb'.step
            /\ (sb'.step # sb.step) <=> (sb.state = 0 \/ sb.state = 7)
            /\ sb'.state = Positions[(sb'.ticks % 14) + 1]
            /\ sb'.completions = sb.completions =>
                   view_status'[active]
                       = "Listing files... " \o Frames[sb'.state + 1]
      ]_vars

\* C15 witness: the tick after the marker reached column 0 has turned it and
\* written the frame of column 1.
C15_Witness ==
    /\ event.op = "tick"
    /\ sb.ticks = 8
    /\ sb.state = 1 /\ sb.step = 1
    /\ view_status[active] = "Listing files... [ =      ]"

NoStatus == \A v \in Views : view_status[v] = ""

\* C14: once the worker thread of a deep scan has terminated (and the poll
\* counter leaves room for one more poll), the polling loop eventually makes
\* the completion update: the view it wrote to last shows the success
\* message and no view shows progress text; from some time on, no view
\* carries the status key, whichever view was active at the polls.
C14_StatusEventuallyErased ==
    /\ [](sb.cleanup # 0 =>
              /\ view_status[sb.cleanup] = "Done"
              /\ \A v \in Views \ {sb.cleanup} : view_status[v] = "")
    /\ (thread.pc = "dead" /\ sb.ticks < MaxTicks)
           ~> (sb.completions = 1 /\ \A v \in Views : view_status[v] \in {"", "Done"})
    /\ (thread.pc = "dead" /\ sb.ticks < MaxTicks) ~> []NoStatus

\* C14 witness: the scan is over and no view carries the status; the last
\* poll wrote to view 2, the scan having started with view 1 active.
C14_Witness ==
    /\ thread.pc = "dead"
    /\ sb.completions = 1
    /\ sb.cleanup = 0
    /\ sb.last_view = 2
    /\ NoStatus

\* C18: every dismissal finds a saved-paths entry for its window in the
\* table: the removal it makes never fails on a missing key.
C18_DismissalFindsEntry ==
    [][ event'.op = "dismiss" =>
            /\ Has(event'.w)
            /\ event'.exc = ""
      ]_vars

\* C19: a save-path command run for a window that has no entry in the table
\* changes nothing: the table (no entry is created, the path is recorded
\* nowhere), the clipboard and the sessions are as before, so that nothing
\* that happens later can depend on the path; the entry a later session
\* start creates for the window is empty, and what a dismissal copies to the
\* clipboard is the list the table held for its window.
C19_SaveWithoutEntryIsDropped ==
    [][ /\ (event'.op = "save" /\ ~Has(event'.w)) =>
               /\ path_list' = path_list
               /\ ~Has2(event'.w)
               /\ clipboard' = clipboard
               /\ sessions' = sessions
        /\ \A w \in Windows :
               (~Has(w) /\ Has2(w)) =>
                   /\ event'.op = "start" /\ event'.w = w
                   /\ path_list'[w] = << >>
        /\ clipboard' # clipboard =>
               /\ event'.op = "dismiss"
               /\ Has(event'.w)
               /\ clipboard' = LinesOf(path_list[event'.w])
      ]_vars

\* C19 witness: a path was saved for a window whose session has been
\* dismissed; the window has no entry and the clipboard holds what was saved
\* before the dismissal.
C19_Witness ==
    /\ event.op = "save"
    /\ ~Has(event.w)
    /\ \E sid \in 1..Len(sessions) :
           sessions[sid].window = event.w /\ sessions[sid].panel = "closed"
    /\ clipboard = "a"

\* C17: every classification lookup made while a listing is built
\* succeeds: no lookup of the scan on the worker thread fails on a missing
\* key, also when a configuration reload runs between the membership test
\* for an extension and the lookups that follow it.
C17_LookupsSucceed ==
    [][ event'.op = "lookup" =>
            /\ thread.ext \in DOMAIN cls.file_type_icons
            /\ event'.exc = ""
      ]_vars

Raised == thread.exc # ""

\* C20: when the scan function has raised on the worker thread, the thread
\* is dead without having presented an item list, and none is presented
\* later: the session has no panel and is not dismissed; the next poll is
\* the completion update and shows the success message; the window's
\* saved-paths entry stays in the table, saves still being added to it.
C20_FailedScanLooksDone ==
    [][ /\ Raised' =>
               /\ thread'.pc = "dead"
               /\ thread'.shown = 0
               /\ sessions'[thread'.sid].panel = "none"
               /\ sessions'[thread'.sid].items = << >>
               /\ Has2(sb'.window)
        /\ Raised =>
               /\ Raised'
               /\ event'.op = "dismiss" => event'.sid # thread.sid
               /\ IsPrefix(path_list[sb.window], path_list'[sb.window])
               /\ event'.op = "tick" =>
                      /\ sb'.poll = "done"
                      /\ sb'.completions = 1
                      /\ view_status'[active] = "Done"
      ]_vars

\* C20 witness: the scan raised KeyError, the polling loop has ended with
\* "Done" on the status line, nothing was presented and the window's entry
\* holds a path saved meanwhile.
C20_Witness ==
    /\ thread.exc = "KeyError"
    /\ sb.poll = "done"
    /\ view_status[active] = "Done"
    /\ thread.shown = 0
    /\ sessions[1].panel = "none"
    /\ Has(1) /\ path_list[1] = <<"a">>

=============================================================================
